---------------------------- MODULE Spec2Model ----------------------------
(***************************************************************************)
(* A model of mariprog/main.py: the date normalisers, the record parsers,  *)
(* the programme/PFSA join and the report printers.                        *)
(*                                                                         *)
(* Python values are tagged records: [t |-> "date", y, m, d],              *)
(* [t |-> "datetime", y, m, d, H, M], [t |-> "str", s], [t |-> "bool", b], *)
(* [t |-> "raise", exc] for an exception that leaves the function, and     *)
(* [t |-> "unbound"] for a local name that has not been assigned.  Python  *)
(* str values that are only ever strings (file fields) are TLA+ strings.   *)
(***************************************************************************)
EXTENDS Integers, Sequences, FiniteSets, TLC

VARIABLES
    pc,                        \* position of the running call
    ret,                       \* value returned (or exception raised) by the pure function under call
    date_string,               \* argument of parse_programme_date
    bstr,                      \* argument of _convert_str_to_bool
    dstr,                      \* argument of _convert_datetime_str_to_datetime
    programme_csv,             \* lines of programme.csv
    pfsa_csv,                  \* pfsa.csv: its rows and where its bytes stop being UTF-8
    dump_csv,                  \* dump.csv: its rows and where its bytes stop being UTF-8
    psa_aid_csv,               \* rows of psa_aid.csv
    inspections_in_programme,  \* module global, main.py:20
    presentable_inspections,   \* module global, main.py:21
    LIST_OF_PORTS,             \* module global, main.py:22
    WEEKS,                     \* module global, main.py:24
    lineno,                    \* lines of programme.csv the open file has handed out
    current_week,              \* local of parse_programme
    pfsa_expiry_data_lst,      \* local of parse_programme
    idx,                       \* position of the running for loop
    pfsa_exp,                  \* local _pfsa_exp of parse_programme
    pfsa_apr,                  \* local _pfsa_apr of parse_programme
    runs,                      \* calls of parse_programme made by this process
    first_run,                 \* history: the two lists as the first call of parse_programme left them
    stdout                     \* what print() has written

vars == <<pc, ret, date_string, bstr, dstr, programme_csv, pfsa_csv, dump_csv,
          psa_aid_csv, inspections_in_programme, presentable_inspections,
          LIST_OF_PORTS, WEEKS, lineno, current_week, pfsa_expiry_data_lst,
          idx, pfsa_exp, pfsa_apr, runs, first_run, stdout>>

(***************************************************************************)
(* Python values                                                           *)
(***************************************************************************)
Raise(e) == [t |-> "raise", exc |-> e]

PyStr(s) == [t |-> "str", s |-> s]

PyBool(b) == [t |-> "bool", b |-> b]

PyDate(y, m, d) == [t |-> "date", y |-> y, m |-> m, d |-> d]

PyDatetime(y, m, d, H, M) == [t |-> "datetime", y |-> y, m |-> m, d |-> d, H |-> H, M |-> M]

Unbound == [t |-> "unbound"]

None == [t |-> "None"]

Raised(v) == v.t = "raise"

(***************************************************************************)
(* str methods, on TLA+ strings                                            *)
(***************************************************************************)
Digits == {"0", "1", "2", "3", "4", "5", "6", "7", "8", "9"}

IsSpace(c) == c \in {" ", "\t"}

DigitVal(c) ==
    CASE c = "0" -> 0 [] c = "1" -> 1 [] c = "2" -> 2 [] c = "3" -> 3
      [] c = "4" -> 4 [] c = "5" -> 5 [] c = "6" -> 6 [] c = "7" -> 7
      [] c = "8" -> 8 [] c = "9" -> 9

AllDigits(s) == Len(s) > 0 /\ \A i \in 1..Len(s) : SubSeq(s, i, i) \in Digits

RECURSIVE DigitsValue(_, _)
DigitsValue(s, acc) ==
    IF s = "" THEN acc ELSE DigitsValue(Tail(s), 10 * acc + DigitVal(Head(s)))

RECURSIVE SplitFrom(_, _, _)
SplitFrom(s, sep, cur) ==
    IF s = "" THEN <<cur>>
    ELSE IF Head(s) = sep THEN <<cur>> \o SplitFrom(Tail(s), sep, "")
    ELSE SplitFrom(Tail(s), sep, cur \o Head(s))

\* s.split(sep), sep one character: empty fields are kept.
Split(s, sep) == SplitFrom(s, sep, "")

RECURSIVE SplitWsFrom(_, _)
SplitWsFrom(s, cur) ==
    LET word == IF cur = "" THEN <<>> ELSE <<cur>>
    IN  IF s = "" THEN word
        ELSE IF IsSpace(Head(s)) THEN word \o SplitWsFrom(Tail(s), "")
        ELSE SplitWsFrom(Tail(s), cur \o Head(s))

\* s.split(): runs of whitespace separate, no empty fields.
SplitWs(s) == SplitWsFrom(s, "")

RECURSIVE LStrip(_)
LStrip(s) == IF s # "" /\ IsSpace(Head(s)) THEN LStrip(Tail(s)) ELSE s

RECURSIVE RStrip(_)
RStrip(s) ==
    IF s # "" /\ IsSpace(SubSeq(s, Len(s), Len(s)))
    THEN RStrip(SubSeq(s, 1, Len(s) - 1))
    ELSE s

Strip(s) == LStrip(RStrip(s))

RECURSIVE Join(_, _)
Join(sep, parts) ==
    IF parts = <<>> THEN ""
    ELSE IF Len(parts) = 1 THEN parts[1]
    ELSE parts[1] \o sep \o Join(sep, Tail(parts))

\* int(s) for the texts the exports hold: optional surrounding whitespace, an
\* optional sign, then decimal digits; anything else is a ValueError.
PyInt(s) ==
    LET body == Strip(s)
        neg == body # "" /\ Head(body) = "-"
        signed == body # "" /\ Head(body) \in {"-", "+"}
        digits == IF signed THEN Tail(body) ELSE body
    IN  IF AllDigits(digits)
        THEN [t |-> "int", v |-> IF neg THEN 0 - DigitsValue(digits, 0) ELSE DigitsValue(digits, 0)]
        ELSE Raise("ValueError")

(***************************************************************************)
(* datetime                                                                *)
(***************************************************************************)
IsLeap(y) == (y % 4 = 0 /\ y % 100 # 0) \/ y % 400 = 0

DaysInMonth(y, m) ==
    IF m = 2 THEN (IF IsLeap(y) THEN 29 ELSE 28)
    ELSE IF m \in {4, 6, 9, 11} THEN 30 ELSE 31

ValidDate(y, m, d) ==
    /\ y \in 1..9999
    /\ m \in 1..12
    /\ d >= 1
    /\ d <= DaysInMonth(y, m)

\* datetime.date(y, m, d)
MakeDate(y, m, d) == IF ValidDate(y, m, d) THEN PyDate(y, m, d) ELSE Raise("ValueError")

\* datetime.datetime(y, m, d, H, M)
MakeDatetime(y, m, d, H, M) ==
    IF ValidDate(y, m, d) /\ H \in 0..23 /\ M \in 0..59
    THEN PyDatetime(y, m, d, H, M)
    ELSE Raise("ValueError")

\* date.fromisoformat(s) on a text of digits and dashes: the text must be
\* exactly YYYY-MM-DD and name a calendar day.
fromisoformat(s) ==
    IF /\ Len(s) = 10
       /\ SubSeq(s, 5, 5) = "-"
       /\ SubSeq(s, 8, 8) = "-"
       /\ AllDigits(SubSeq(s, 1, 4))
       /\ AllDigits(SubSeq(s, 6, 7))
       /\ AllDigits(SubSeq(s, 9, 10))
    THEN MakeDate(DigitsValue(SubSeq(s, 1, 4), 0),
                  DigitsValue(SubSeq(s, 6, 7), 0),
                  DigitsValue(SubSeq(s, 9, 10), 0))
    ELSE Raise("ValueError")

\* the order of date and datetime values
Stamp(v) == <<v.y, v.m, v.d, IF v.t = "datetime" THEN v.H ELSE 0, IF v.t = "datetime" THEN v.M ELSE 0>>

RECURSIVE TupleLess(_, _)
TupleLess(a, b) ==
    IF a = <<>> THEN FALSE
    ELSE IF a[1] # b[1] THEN a[1] < b[1]
    ELSE TupleLess(Tail(a), Tail(b))

DateLess(a, b) == TupleLess(Stamp(a), Stamp(b))

\* d + relativedelta(months=+n)
AddMonths(d, n) ==
    LET total == (d.m - 1) + n
        y2 == d.y + (total \div 12)
        m2 == (total % 12) + 1
        d2 == IF d.d <= DaysInMonth(y2, m2) THEN d.d ELSE DaysInMonth(y2, m2)
    IN  IF y2 \in 1..9999 THEN PyDate(y2, m2, d2) ELSE Raise("ValueError")

(***************************************************************************)
(* DATE_PATTERN and parse_programme_date                                   *)
(***************************************************************************)
\* re.match(DATE_PATTERN, s) for "^\d{1,2}\/\d{1,2}\/\d{2,4}$"
DATE_PATTERN(s) ==
    LET p == Split(s, "/")
    IN  /\ Len(p) = 3
        /\ AllDigits(p[1]) /\ Len(p[1]) \in 1..2
        /\ AllDigits(p[2]) /\ Len(p[2]) \in 1..2
        /\ AllDigits(p[3]) /\ Len(p[3]) \in 2..4

_convert_year_str(year_str) ==
    IF Len(year_str) = 2 THEN "20" \o year_str
    ELSE IF Len(year_str) = 4 THEN year_str
    ELSE year_str

parse_programme_date(s) ==
    LET dstring == Split(s, "/")
    IN  IF Len(dstring) < 3 THEN Raise("IndexError")
        ELSE fromisoformat(Join("-", <<_convert_year_str(dstring[3]), dstring[2], dstring[1]>>))


(***************************************************************************)
(* _convert_str_to_bool and _convert_datetime_str_to_datetime              *)
(***************************************************************************)
\* The else branch evaluates "...".format(bst) before ValueError is built;
\* bst is no name of the function or the module, so NameError is what leaves.
_convert_str_to_bool(b) ==
    IF b \in {"TRUE", "True", "true", "YES", "yes", "Yes"} THEN PyBool(TRUE)
    ELSE IF b \in {"FALSE", "False", "false", "No", "NO", "no"} THEN PyBool(FALSE)
    ELSE Raise("NameError")

\* The statements of main.py:119-126 in order; the first one that raises decides.
_convert_datetime_str_to_datetime_date_only(s) ==
    LET w == SplitWs(s)
        dp == Split(w[1], "-")
        year == PyInt(dp[3])
        month == PyInt(dp[2])
        day == PyInt(dp[1])
        tp == Split(w[2], ":")
        hour == PyInt(tp[1])
        minute == PyInt(tp[2])
    IN  IF s = "" THEN PyStr("")
        ELSE IF Len(w) < 1 THEN Raise("IndexError")
        ELSE IF Len(dp) < 3 THEN Raise("IndexError")
        ELSE IF Raised(year) THEN year
        ELSE IF Raised(month) THEN month
        ELSE IF Raised(day) THEN day
        ELSE IF Len(w) < 2 THEN MakeDate(year.v, month.v, day.v)
        ELSE IF Raised(hour) THEN hour
        ELSE IF Len(tp) < 2 THEN Raise("IndexError")
        ELSE IF Raised(minute) THEN minute
        ELSE MakeDatetime(year.v, month.v, day.v, hour.v, minute.v)

_convert_datetime_str_to_datetime(s) ==
    LET w == SplitWs(s)
        dp == Split(w[1], "-")
        year == PyInt(dp[3])
        month == PyInt(dp[2])
        day == PyInt(dp[1])
        tp == Split(w[2], ":")
        hour == PyInt(tp[1])
        minute == PyInt(tp[2])
    IN  IF s = "" THEN PyStr("")
        ELSE IF Len(w) < 1 THEN Raise("IndexError")
        ELSE IF Len(dp) < 3 THEN Raise("IndexError")
        ELSE IF Raised(year) THEN year
        ELSE IF Raised(month) THEN month
        ELSE IF Raised(day) THEN day
        ELSE IF Len(w) < 2 THEN Raise("IndexError")
        ELSE IF Raised(hour) THEN hour
        ELSE IF Len(tp) < 2 THEN Raise("IndexError")
        ELSE IF Raised(minute) THEN minute
        ELSE MakeDatetime(year.v, month.v, day.v, hour.v, minute.v)

(***************************************************************************)
(* sorted(xs, key=...)                                                     *)
(***************************************************************************)
List(xs) == [t |-> "list", v |-> xs]

\* a < b for two keys of one type; the only str key is the empty placeholder
KeyLess(a, b) == IF a.t = "str" THEN FALSE ELSE DateLess(a, b)

RECURSIVE InsertKeyed(_, _)
InsertKeyed(sorted, x) ==
    IF sorted = <<>> THEN <<x>>
    ELSE IF KeyLess(x.k, Head(sorted).k) THEN <<x>> \o sorted
    ELSE <<Head(sorted)>> \o InsertKeyed(Tail(sorted), x)

RECURSIVE SortKeyed(_, _)
SortKeyed(done, rest) ==
    IF rest = <<>> THEN done ELSE SortKeyed(InsertKeyed(done, Head(rest)), Tail(rest))

\* sorted() on (key, value) pairs: the sort is stable; it compares a key of
\* one type with a key of the other as soon as the list holds both, and
\* '<' between str and datetime is a TypeError.
PySorted(keyed) ==
    IF \E i, j \in 1..Len(keyed) : keyed[i].k.t # keyed[j].k.t
    THEN Raise("TypeError")
    ELSE LET s == SortKeyed(<<>>, keyed)
         IN  List([i \in 1..Len(s) |-> s[i].v])

(***************************************************************************)
(* PortFromPFSARow, parse_pfsa_csv                                         *)
(*                                                                         *)
(* A file that is read with the UTF-8 fallback is [rows, bad, decoded]:    *)
(* bad = 0 when every byte decodes as UTF-8, else the row that holds the   *)
(* first malformed byte; decoded < bad is the number of rows the reader    *)
(* hands out before the decoder reaches that byte (the rows that lie in    *)
(* the chunks decoded before the chunk that holds it).                     *)
(***************************************************************************)
parse_date_string(date_string_) ==
    LET w == SplitWs(date_string_)
        p == Split(w[1], "-")
    IN  IF Len(w) = 0 THEN PyDate(1900, 1, 1)
        ELSE IF Len(p) < 3 THEN Raise("IndexError")
        ELSE fromisoformat(Join("-", <<p[3], p[2], p[1]>>))

PortFromPFSARow(row) ==
    LET approval == parse_date_string(row.PFSA_Approval)
        expiry == parse_date_string(row.PFSA_Expiry)
    IN  IF Raised(approval) THEN approval
        ELSE IF Raised(expiry) THEN expiry
        ELSE [t |-> "PortFromPFSARow",
              site_name |-> Strip(row.SiteName),
              pfsa_approval_date |-> approval,
              pfsa_expiry_date |-> expiry]

\* one "for row in reader" loop of parse_pfsa_csv: the list so far and the
\* exception that ended the loop, if one did
RECURSIVE ReadPfsaRows(_, _)
ReadPfsaRows(rows, list_of_ports) ==
    IF rows = <<>> THEN [lst |-> list_of_ports, exc |-> None]
    ELSE LET port == PortFromPFSARow(Head(rows))
         IN  IF Raised(port) THEN [lst |-> list_of_ports, exc |-> port]
             ELSE ReadPfsaRows(Tail(rows), Append(list_of_ports, port))

ByExpiry(ports) == [i \in 1..Len(ports) |-> [k |-> ports[i].pfsa_expiry_date, v |-> ports[i]]]

parse_pfsa_csv_unsorted(file) ==
    LET utf8 == ReadPfsaRows(SubSeq(file.rows, 1, IF file.bad = 0 THEN Len(file.rows) ELSE file.decoded), <<>>)
        latin1 == ReadPfsaRows(file.rows, utf8.lst)
    IN  IF utf8.exc # None THEN utf8.exc
        ELSE IF file.bad = 0 THEN List(utf8.lst)
        ELSE IF latin1.exc # None THEN latin1.exc
        ELSE List(latin1.lst)

parse_pfsa_csv(file) ==
    LET utf8 == ReadPfsaRows(SubSeq(file.rows, 1, IF file.bad = 0 THEN Len(file.rows) ELSE file.decoded), <<>>)
        latin1 == ReadPfsaRows(file.rows, utf8.lst)
    IN  IF utf8.exc # None THEN utf8.exc
        ELSE IF file.bad = 0 THEN PySorted(ByExpiry(utf8.lst))
        ELSE IF latin1.exc # None THEN latin1.exc
        ELSE PySorted(ByExpiry(latin1.lst))

(***************************************************************************)
(* PortFromCSVRow, parse_csv                                               *)
(***************************************************************************)
PortFromCSVRow_parse_date_string(date_string_) ==
    LET w == SplitWs(date_string_)
        p == Split(w[1], "-")
    IN  IF Len(w) = 0 THEN PyDate(1900, 1, 1)
        ELSE IF Len(p) < 3 THEN Raise("IndexError")
        ELSE fromisoformat(Join("-", <<p[3], p[2], p[1]>>))

\* A row of an export with no County column gives a port with no county attribute.
PortFromCSVRow(row) ==
    LET last == PortFromCSVRow_parse_date_string(row.DateOfLastInspection)
        port == [t |-> "PortFromCSVRow",
                 site_name |-> Strip(row.SiteName),
                 last_inspection_date |-> last,
                 frequency_target |-> IF row.FrequencyTarget # "" THEN Strip(row.FrequencyTarget) ELSE "XXXXX",
                 pfsi_category |-> Strip(row.SubCategoryDesc),
                 site_category |-> Strip(row.SiteCategoryDesc)]
    IN  IF Raised(last) THEN last
        ELSE IF "County" \in DOMAIN row THEN [county |-> Strip(row.County)] @@ port
        ELSE port

\* one "for row in csv_reader" loop of parse_csv on LIST_OF_PORTS
RECURSIVE ReadDumpRows(_, _)
ReadDumpRows(rows, ports) ==
    IF rows = <<>> THEN [lst |-> ports, exc |-> None]
    ELSE LET port == PortFromCSVRow(Head(rows))
         IN  IF Raised(port) THEN [lst |-> ports, exc |-> port]
             ELSE ReadDumpRows(Tail(rows),
                               IF Head(rows).SiteTypeDesc = "Port" THEN Append(ports, port) ELSE ports)

\* parse_csv: LIST_OF_PORTS afterwards, and the exception that left it, if any
parse_csv(file, ports) ==
    LET utf8 == ReadDumpRows(SubSeq(file.rows, 1, IF file.bad = 0 THEN Len(file.rows) ELSE file.decoded), ports)
    IN  IF utf8.exc # None \/ file.bad = 0 THEN utf8
        ELSE ReadDumpRows(file.rows, utf8.lst)

(***************************************************************************)
(* PSAData, get_psa_assessment_data                                        *)
(***************************************************************************)
PSAData(row) ==
    LET approval == _convert_datetime_str_to_datetime(row.PortSecurityAssessmentApprovalDate)
        last == _convert_datetime_str_to_datetime(row.DateOfLastInspection)
        due == _convert_datetime_str_to_datetime(row.DateInspectionDue)
    IN  IF Raised(approval) THEN approval
        ELSE IF Raised(last) THEN last
        ELSE IF Raised(due) THEN due
        ELSE [t |-> "PSAData",
              psa |-> row.SiteName,
              pso |-> row.PSO,
              psa_approval_date |-> approval,
              date_of_last_inspection |-> last,
              due_inspection |-> due]

RECURSIVE ReadPsaRows(_, _)
ReadPsaRows(rows, output) ==
    IF rows = <<>> THEN List(output)
    ELSE IF Head(rows).SiteTypeDesc # "PSA" THEN ReadPsaRows(Tail(rows), output)
    ELSE LET psa == PSAData(Head(rows))
         IN  IF Raised(psa) THEN psa ELSE ReadPsaRows(Tail(rows), Append(output, psa))

get_psa_assessment_data(rows) == ReadPsaRows(rows, <<>>)

ByDueInspection(output) == [i \in 1..Len(output) |-> [k |-> output[i].due_inspection, v |-> output[i]]]

\* the line print_psa_assessment_data prints for one record
PsaLine(psa) == [psa |-> psa.psa, pso |-> psa.pso, due |-> psa.due_inspection]

(***************************************************************************)
(* Inspection, PresentableInspection, _get_header_key_from_csv             *)
(*                                                                         *)
(* A line of programme.csv is the tuple of its cells; csv.reader and       *)
(* _get_header_key_from_csv draw their lines from the one open file.       *)
(***************************************************************************)
INITIALS == <<"KS", "PN", "SP", "ML", "SC", "DS", "WW", "GE", "TL", "PD", "AO">>

Range(f) == {f[i] : i \in DOMAIN f}

\* list(zip(key, row))
Zip(key, row) ==
    [i \in 1..(IF Len(key) < Len(row) THEN Len(key) ELSE Len(row)) |-> <<key[i], row[i]>>]

Inspection(week_begining, inspection_data) ==
    LET week == parse_programme_date(week_begining)
    IN  IF Raised(week) THEN week
        ELSE [t |-> "Inspection", inspection_data |-> inspection_data, week_begining |-> week]

\* [item[1] for item in self._inspection_data if item[0] == name][0]
FirstValue(inspection, name) ==
    SelectSeq(inspection.inspection_data, LAMBDA item : item[1] = name)[1][2]

facility(inspection) == FirstValue(inspection, "Facility")

location(inspection) == FirstValue(inspection, "Location")

comments(inspection) == FirstValue(inspection, "Comments/Date")

inspectors(inspection) ==
    LET marked == SelectSeq(inspection.inspection_data,
                            LAMBDA item : item[2] = "X" /\ item[1] \in Range(INITIALS))
    IN  [i \in 1..Len(marked) |-> marked[i][1]]

PresentableInspection(week_begining, location_, facility_, inspectors_, comments_, pfsa_expiry, pfsa_approval) ==
    [week_begining |-> week_begining, location |-> location_, facility |-> facility_,
     inspectors |-> inspectors_, comments |-> comments_,
     pfsa_expiry |-> pfsa_expiry, pfsa_approval |-> pfsa_approval]

\* the header row and the number of lines read to find it; with no header row
\* every line is read and None is returned
RECURSIVE HeaderFrom(_, _)
HeaderFrom(lines, n) ==
    IF n > Len(lines) THEN [key |-> None, consumed |-> Len(lines)]
    ELSE IF lines[n][1] = "Week Comm" THEN [key |-> lines[n], consumed |-> n]
    ELSE HeaderFrom(lines, n + 1)

_get_header_key_from_csv(lines) == HeaderFrom(lines, 1)

\* [x for x in pfsa_expiry_data_lst if x.site_name == inspection.facility.rstrip()]
PfsaMatches(lst, inspection) ==
    SelectSeq(lst, LAMBDA x : x.site_name = RStrip(facility(inspection)))

\* week_port_is_in_programme's and in_current_programme's scan
in_current_programme(port, inspections) ==
    LET found == SelectSeq(inspections, LAMBDA p : facility(p) = port.site_name)
    IN  IF found = <<>> THEN [t |-> "bool", b |-> FALSE]
        ELSE [t |-> "tuple", b |-> TRUE, week_begining |-> found[1].week_begining]

(***************************************************************************)
(* The states no call has touched                                          *)
(***************************************************************************)
NoFile == [rows |-> <<>>, bad |-> 0]

NoArguments == date_string = "" /\ bstr = "" /\ dstr = "" /\ ret = None

NoFiles ==
    /\ programme_csv = <<>>
    /\ pfsa_csv = NoFile
    /\ dump_csv = NoFile
    /\ psa_aid_csv = <<>>

EmptyGlobals ==
    /\ inspections_in_programme = <<>>
    /\ presentable_inspections = <<>>
    /\ LIST_OF_PORTS = <<>>
    /\ WEEKS = <<>>

NoLocals ==
    /\ lineno = 0
    /\ current_week = ""
    /\ pfsa_expiry_data_lst = <<>>
    /\ idx = 0
    /\ pfsa_exp = Unbound
    /\ pfsa_apr = Unbound
    /\ runs = 0
    /\ first_run = None
    /\ stdout = <<>>

programmeVars == <<programme_csv, pfsa_csv, inspections_in_programme, presentable_inspections,
                   WEEKS, lineno, current_week, pfsa_expiry_data_lst, pfsa_exp, pfsa_apr, runs, first_run>>

(***************************************************************************)
(* parse_programme_date called on one text                                 *)
(***************************************************************************)
DayTokens == {"1", "01", "9", "15", "29", "30", "31"}

MonthTokens == {"1", "2", "02", "04", "12", "13"}

YearTokens == {"24", "99", "123", "2023", "2024"}

DateStrings ==
    {Join("/", <<d, m, y>>) : d \in DayTokens, m \in MonthTokens, y \in YearTokens}
        \cup {"", "Week Comm", "01/02"}

InitDate ==
    /\ pc = "call"
    /\ date_string \in DateStrings
    /\ bstr = "" /\ dstr = "" /\ ret = None
    /\ NoFiles /\ EmptyGlobals /\ NoLocals

CallParseProgrammeDate ==
    /\ pc = "call"
    /\ pc' = "returned"
    /\ ret' = parse_programme_date(date_string)
    /\ UNCHANGED <<date_string, bstr, dstr, dump_csv, psa_aid_csv, LIST_OF_PORTS, idx, stdout>>
    /\ UNCHANGED programmeVars

NextDate == CallParseProgrammeDate

SpecDate == InitDate /\ [][NextDate]_vars

\* C6: every text D/M/YY or D/M/YYYY that matches DATE_PATTERN and names a
\* real calendar day (D and M of one or two digits) is parsed to the date
\* with that day and month, year 2000+YY for a two-digit year and the year
\* verbatim for a four-digit year.
C6_EveryMatchingDateParses ==
    LET p == Split(date_string, "/")
        year == IF Len(p[3]) = 2 THEN 2000 + DigitsValue(p[3], 0) ELSE DigitsValue(p[3], 0)
        month == DigitsValue(p[2], 0)
        day == DigitsValue(p[1], 0)
    IN  (/\ pc = "returned"
         /\ DATE_PATTERN(date_string)
         /\ Len(p[3]) \in {2, 4}
         /\ ValidDate(year, month, day))
        => ret = PyDate(year, month, day)

(***************************************************************************)
(* _convert_str_to_bool called on one text                                 *)
(***************************************************************************)
UpperChar(c) ==
    CASE c = "a" -> "A" [] c = "e" -> "E" [] c = "f" -> "F" [] c = "l" -> "L"
      [] c = "n" -> "N" [] c = "o" -> "O" [] c = "r" -> "R" [] c = "s" -> "S"
      [] c = "t" -> "T" [] c = "u" -> "U" [] c = "y" -> "Y" [] OTHER -> c

LowerChar(c) ==
    CASE c = "A" -> "a" [] c = "E" -> "e" [] c = "F" -> "f" [] c = "L" -> "l"
      [] c = "N" -> "n" [] c = "O" -> "o" [] c = "R" -> "r" [] c = "S" -> "s"
      [] c = "T" -> "t" [] c = "U" -> "u" [] c = "Y" -> "y" [] OTHER -> c

RECURSIVE Lower(_)
Lower(s) == IF s = "" THEN "" ELSE LowerChar(Head(s)) \o Lower(Tail(s))

RECURSIVE CaseVariants(_)
CaseVariants(w) ==
    IF w = "" THEN {""}
    ELSE {c \o rest : c \in {Head(w), UpperChar(Head(w))}, rest \in CaseVariants(Tail(w))}

BoolStrings ==
    CaseVariants("true") \cup CaseVariants("yes") \cup CaseVariants("false")
        \cup CaseVariants("no") \cup {"maybe", "", "y", "1", "on", " true"}

InitBool ==
    /\ pc = "call"
    /\ bstr \in BoolStrings
    /\ date_string = "" /\ dstr = "" /\ ret = None
    /\ NoFiles /\ EmptyGlobals /\ NoLocals

CallConvertStrToBool ==
    /\ pc = "call"
    /\ pc' = "returned"
    /\ ret' = _convert_str_to_bool(bstr)
    /\ UNCHANGED <<date_string, bstr, dstr, dump_csv, psa_aid_csv, LIST_OF_PORTS, idx, stdout>>
    /\ UNCHANGED programmeVars

NextBool == CallConvertStrToBool

SpecBool == InitBool /\ [][NextBool]_vars

\* C5: every upper/lower-case variant of "true" and "yes" gives True, every
\* variant of "false" and "no" gives False, and every other text raises
\* ValueError (no value, no other error).
C5_TotalOverCaseVariants ==
    pc = "returned" =>
        IF Lower(bstr) \in {"true", "yes"} THEN ret = PyBool(TRUE)
        ELSE IF Lower(bstr) \in {"false", "no"} THEN ret = PyBool(FALSE)
        ELSE ret = Raise("ValueError")

(***************************************************************************)
(* _convert_datetime_str_to_datetime called on one text                    *)
(***************************************************************************)
ShapeBDates ==
    {Join("-", <<d, m, y>>) : d \in {"14", "31", "1"}, m \in {"05", "02", "13"}, y \in {"2014", "2016"}}

ShapeBTimes == {"11:00", "00:59", "24:00", "11:60", "11", "11:xx"}

DatetimeStrings ==
    ShapeBDates \cup {d \o " " \o t : d \in ShapeBDates, t \in ShapeBTimes}
        \cup {"", " ", "14-05", "14-05-20x4 11:00"}

InitDatetime ==
    /\ pc = "call"
    /\ dstr \in DatetimeStrings
    /\ date_string = "" /\ bstr = "" /\ ret = None
    /\ NoFiles /\ EmptyGlobals /\ NoLocals

CallConvertDatetimeStr ==
    /\ pc = "call"
    /\ pc' = "returned"
    /\ ret' = _convert_datetime_str_to_datetime(dstr)
    /\ UNCHANGED <<date_string, bstr, dstr, dump_csv, psa_aid_csv, LIST_OF_PORTS, idx, stdout>>
    /\ UNCHANGED programmeVars

NextDatetime == CallConvertDatetimeStr

SpecDatetime == InitDatetime /\ [][NextDatetime]_vars

\* The three input shapes, read off the text by position.
Num(s, i, j) == DigitsValue(SubSeq(s, i, j), 0)

IsDDMMYYYY(s) ==
    /\ Len(s) = 10
    /\ AllDigits(SubSeq(s, 1, 2)) /\ SubSeq(s, 3, 3) = "-"
    /\ AllDigits(SubSeq(s, 4, 5)) /\ SubSeq(s, 6, 6) = "-"
    /\ AllDigits(SubSeq(s, 7, 10))
    /\ ValidDate(Num(s, 7, 10), Num(s, 4, 5), Num(s, 1, 2))

IsDDMMYYYY_HHMM(s) ==
    /\ Len(s) = 16
    /\ IsDDMMYYYY(SubSeq(s, 1, 10))
    /\ SubSeq(s, 11, 11) = " "
    /\ AllDigits(SubSeq(s, 12, 13)) /\ SubSeq(s, 14, 14) = ":"
    /\ AllDigits(SubSeq(s, 15, 16))
    /\ Num(s, 12, 13) \in 0..23
    /\ Num(s, 15, 16) \in 0..59

TimestampOf(s) == PyDatetime(Num(s, 7, 10), Num(s, 4, 5), Num(s, 1, 2), Num(s, 12, 13), Num(s, 15, 16))

\* C7 as stated: "DD-MM-YYYY HH:MM" gives the timestamp with those five
\* fields, "DD-MM-YYYY" gives a date-only value for that day, the empty text
\* gives the empty placeholder, and none of the three raises.
C7_ThreeShapesNeverRaise ==
    pc = "returned" =>
        /\ IsDDMMYYYY_HHMM(dstr) => ret = TimestampOf(dstr)
        /\ IsDDMMYYYY(dstr) => ret = PyDate(Num(dstr, 7, 10), Num(dstr, 4, 5), Num(dstr, 1, 2))
        /\ dstr = "" => ret = PyStr("")

\* C7 as amended: "DD-MM-YYYY HH:MM" gives the timestamp with those five
\* fields and the empty text gives the empty placeholder, neither raising;
\* "DD-MM-YYYY" with no time component raises IndexError.
C7_TimestampOrEmptyElseIndexError ==
    pc = "returned" =>
        /\ IsDDMMYYYY_HHMM(dstr) => ret = TimestampOf(dstr)
        /\ IsDDMMYYYY(dstr) => ret = Raise("IndexError")
        /\ dstr = "" => ret = PyStr("")

C7_DateOnlyTextWasConverted ==
    /\ pc = "returned"
    /\ dstr = "14-05-2014"
    /\ ret = Raise("IndexError")

(***************************************************************************)
(* print_psa_assessment_data on one psa_aid.csv                            *)
(***************************************************************************)
MaxPsaRows == 3

PsaRowSet ==
    {[SiteName |-> n, PSO |-> "A Officer", SiteTypeDesc |-> ty,
      PortSecurityAssessmentApprovalDate |-> "10-01-2020 09:30",
      DateOfLastInspection |-> "",
      DateInspectionDue |-> due] :
        n \in {"Dover", "Tyne"}, ty \in {"PSA", "Port"},
        due \in {"", "01-03-2024 00:00", "01-02-2024 00:00", "01-03-2024"}}

RECURSIVE SeqsUpTo(_, _)
SeqsUpTo(S, n) ==
    IF n = 0 THEN {<<>>}
    ELSE LET shorter == SeqsUpTo(S, n - 1)
         IN  shorter \cup {Append(q, x) : q \in {r \in shorter : Len(r) = n - 1}, x \in S}

InitPsa ==
    /\ pc = "get_psa_assessment_data"
    /\ psa_aid_csv \in SeqsUpTo(PsaRowSet, MaxPsaRows)
    /\ NoArguments
    /\ programme_csv = <<>> /\ pfsa_csv = NoFile /\ dump_csv = NoFile
    /\ EmptyGlobals /\ NoLocals

\* main.py:373, the argument of sorted()
GetPsaAssessmentData ==
    /\ pc = "get_psa_assessment_data"
    /\ ret' = get_psa_assessment_data(psa_aid_csv)
    /\ pc' = IF Raised(ret') THEN "aborted" ELSE "sorted"
    /\ UNCHANGED <<date_string, bstr, dstr, dump_csv, psa_aid_csv, LIST_OF_PORTS, idx, stdout>>
    /\ UNCHANGED programmeVars

\* main.py:373-379, sorted() and the loop of prints
SortAndPrintPsa ==
    /\ pc = "sorted"
    /\ LET psa_assessment_data == PySorted(ByDueInspection(ret.v))
       IN  IF Raised(psa_assessment_data)
           THEN /\ pc' = "aborted"
                /\ ret' = psa_assessment_data
                /\ stdout' = stdout
           ELSE /\ pc' = "done"
                /\ ret' = ret
                /\ stdout' = stdout \o [i \in 1..Len(psa_assessment_data.v) |-> PsaLine(psa_assessment_data.v[i])]
    /\ UNCHANGED <<date_string, bstr, dstr, dump_csv, psa_aid_csv, LIST_OF_PORTS, idx>>
    /\ UNCHANGED programmeVars

NextPsa == GetPsaAssessmentData \/ SortAndPrintPsa

SpecPsa == InitPsa /\ [][NextPsa]_vars

\* the rows of the file parse: each date field of a PSA row is empty or DD-MM-YYYY HH:MM
PsaRowsParse ==
    \A i \in 1..Len(psa_aid_csv) :
        psa_aid_csv[i].SiteTypeDesc = "PSA" =>
            \A f \in {psa_aid_csv[i].PortSecurityAssessmentApprovalDate,
                      psa_aid_csv[i].DateOfLastInspection,
                      psa_aid_csv[i].DateInspectionDue} : f = "" \/ IsDDMMYYYY_HHMM(f)

Orderings(n) == {p \in [1..n -> 1..n] : \A i, j \in 1..n : p[i] = p[j] => i = j}

\* C8: for every psa_aid.csv whose rows parse, also one with empty
\* DateInspectionDue fields, the report is printed; the printed lines are a
\* permutation of the records of get_psa_assessment_data, in non-decreasing
\* order of due-inspection date, records of equal due-inspection value in
\* file order.
C8_PrintedSortedStablePermutation ==
    (pc \in {"done", "aborted"} /\ PsaRowsParse) =>
        /\ pc = "done"
        /\ LET output == get_psa_assessment_data(psa_aid_csv).v
           IN  \E p \in Orderings(Len(output)) :
                   /\ stdout = [i \in 1..Len(output) |-> PsaLine(output[p[i]])]
                   /\ \A i, j \in 1..Len(output) :
                          i < j =>
                              /\ (output[p[i]].due_inspection.t = "datetime"
                                    /\ output[p[j]].due_inspection.t = "datetime")
                                 => ~ DateLess(output[p[j]].due_inspection, output[p[i]].due_inspection)
                              /\ output[p[i]].due_inspection = output[p[j]].due_inspection
                                 => p[i] < p[j]

(***************************************************************************)
(* parse_programme, called up to MaxRuns times by one process              *)
(***************************************************************************)
MaxRuns == 2

MaxProgrammeRows == 2

MaxPfsaRows == 2

HeaderRow == <<"Week Comm", "Location", "Facility", "KS", "PN", "Total", "Comments/Date">>

ProgrammeRowSet ==
    {<<c, "Dover", "Dock A ", "X", "", "X", "to confirm  ">> : c \in {"05/02/24", "", "12/02/2024", "5/2/24", "Notes"}}
        \cup {<<c, "Tyne", "Dock B", "", "", "", "">> : c \in {"05/02/24", "", "12/02/2024", "5/2/24", "Notes"}}

\* programme.csv: the header row, then up to MaxProgrammeRows rows; one file
\* with a title line above the header and one with no header row
ProgrammeFiles ==
    {<<HeaderRow>> \o body : body \in SeqsUpTo(ProgrammeRowSet, MaxProgrammeRows)}
        \cup {<<<<"Programme 2024", "", "", "", "", "", "">>, HeaderRow,
                <<"05/02/24", "Dover", "Dock A ", "X", "", "X", "to confirm  ">>>>,
              <<<<"05/02/24", "Dover", "Dock A ", "X", "", "X", "to confirm  ">>>>}

PfsaRowSet ==
    {[SiteName |-> " Dock A ", PFSA_Approval |-> "01-06-2020 00:00", PFSA_Expiry |-> "01-06-2025 00:00"],
     [SiteName |-> "Dock A", PFSA_Approval |-> "15-03-2019 00:00", PFSA_Expiry |-> "15-03-2024 00:00"],
     [SiteName |-> "Dock A", PFSA_Approval |-> "02-02-2022", PFSA_Expiry |-> "01-06-2025"],
     [SiteName |-> "Dock A", PFSA_Approval |-> "20-09-2021 00:00", PFSA_Expiry |-> ""],
     [SiteName |-> "Dock C", PFSA_Approval |-> "01-01-2016 00:00", PFSA_Expiry |-> "01-01-2021 00:00"]}

\* the files of the given rows: all bytes UTF-8, or a first malformed byte in
\* row bad, met after decoded rows have been handed out
Encodings(rows) ==
    {f \in [rows : {rows}, bad : 0..Len(rows), decoded : 0..Len(rows)] :
        IF f.bad = 0 THEN f.decoded = 0 ELSE f.decoded < f.bad}

FilesOf(rowsets) == UNION {Encodings(rows) : rows \in rowsets}

InitProgramme ==
    /\ pc = "idle"
    /\ programme_csv \in ProgrammeFiles
    /\ pfsa_csv \in FilesOf(SeqsUpTo(PfsaRowSet, MaxPfsaRows))
    /\ dump_csv = NoFile /\ psa_aid_csv = <<>>
    /\ NoArguments /\ EmptyGlobals /\ NoLocals

\* main.py:153-159: the PFSA list is built, the file opened, the header found
ParseProgrammeOpen ==
    /\ pc \in {"idle", "done"}
    /\ runs < MaxRuns
    /\ runs' = runs + 1
    /\ current_week' = ""
    /\ pfsa_exp' = Unbound
    /\ pfsa_apr' = Unbound
    /\ idx' = 0
    /\ LET lst == parse_pfsa_csv(pfsa_csv)
       IN  IF Raised(lst)
           THEN /\ pc' = "aborted"
                /\ ret' = lst
                /\ UNCHANGED <<pfsa_expiry_data_lst, lineno>>
           ELSE /\ pc' = "reading"
                /\ ret' = ret
                /\ pfsa_expiry_data_lst' = lst.v
                /\ lineno' = _get_header_key_from_csv(programme_csv).consumed
    /\ UNCHANGED <<date_string, bstr, dstr, programme_csv, pfsa_csv, dump_csv, psa_aid_csv,
                   inspections_in_programme, presentable_inspections, LIST_OF_PORTS, WEEKS,
                   first_run, stdout>>

\* main.py:160-168: one turn of "for row in csv_reader"
ReadRow ==
    /\ pc = "reading"
    /\ lineno < Len(programme_csv)
    /\ lineno' = lineno + 1
    /\ LET row == programme_csv[lineno + 1]
           key == _get_header_key_from_csv(programme_csv).key
           week == IF DATE_PATTERN(row[1]) THEN row[1] ELSE current_week
           inspection == Inspection(week, Zip(key, row))
       IN  IF DATE_PATTERN(row[1]) \/ row[1] = ""
           THEN IF Raised(inspection)
                THEN /\ pc' = "aborted"
                     /\ ret' = inspection
                     /\ UNCHANGED <<WEEKS, current_week, inspections_in_programme>>
                ELSE /\ pc' = pc
                     /\ ret' = ret
                     /\ WEEKS' = IF DATE_PATTERN(row[1]) THEN Append(WEEKS, inspection.week_begining) ELSE WEEKS
                     /\ current_week' = week
                     /\ inspections_in_programme' = Append(inspections_in_programme, inspection)
           ELSE UNCHANGED <<pc, ret, WEEKS, current_week, inspections_in_programme>>
    /\ UNCHANGED <<date_string, bstr, dstr, programme_csv, pfsa_csv, dump_csv, psa_aid_csv,
                   presentable_inspections, LIST_OF_PORTS, pfsa_expiry_data_lst, idx,
                   pfsa_exp, pfsa_apr, runs, first_run, stdout>>

\* the reader is exhausted; main.py:170 starts the loop over inspections_in_programme
EndOfRows ==
    /\ pc = "reading"
    /\ lineno = Len(programme_csv)
    /\ pc' = "correlating"
    /\ idx' = 1
    /\ UNCHANGED <<ret, date_string, bstr, dstr, programme_csv, pfsa_csv, dump_csv, psa_aid_csv,
                   inspections_in_programme, presentable_inspections, LIST_OF_PORTS, WEEKS,
                   lineno, current_week, pfsa_expiry_data_lst, pfsa_exp, pfsa_apr, runs,
                   first_run, stdout>>

\* main.py:170-186: one turn of "for inspection in inspections_in_programme"
Correlate ==
    /\ pc = "correlating"
    /\ idx <= Len(inspections_in_programme)
    /\ idx' = idx + 1
    /\ LET inspection == inspections_in_programme[idx]
           found == PfsaMatches(pfsa_expiry_data_lst, inspection)
           exp == IF found # <<>> THEN found[1].pfsa_expiry_date ELSE PyStr("NO PFSA EXPIRY DATA")
           apr == IF found # <<>> THEN found[1].pfsa_approval_date ELSE pfsa_apr
       IN  /\ pfsa_exp' = exp
           /\ pfsa_apr' = apr
           /\ IF apr = Unbound
              THEN /\ pc' = "aborted"
                   /\ ret' = Raise("UnboundLocalError")
                   /\ UNCHANGED presentable_inspections
              ELSE /\ pc' = pc
                   /\ ret' = ret
                   /\ presentable_inspections' =
                          Append(presentable_inspections,
                                 PresentableInspection(inspection.week_begining,
                                                       location(inspection),
                                                       facility(inspection),
                                                       Join("|", inspectors(inspection)),
                                                       RStrip(comments(inspection)),
                                                       exp, apr))
    /\ UNCHANGED <<date_string, bstr, dstr, programme_csv, pfsa_csv, dump_csv, psa_aid_csv,
                   inspections_in_programme, LIST_OF_PORTS, WEEKS, lineno, current_week,
                   pfsa_expiry_data_lst, runs, first_run, stdout>>

\* main.py:187-196: every presentable inspection is printed and the call returns
PrintProgramme ==
    /\ pc = "correlating"
    /\ idx > Len(inspections_in_programme)
    /\ pc' = "done"
    /\ stdout' = stdout \o presentable_inspections
    /\ first_run' = IF runs = 1
                    THEN [presentable_inspections |-> presentable_inspections,
                          inspections_in_programme |-> inspections_in_programme]
                    ELSE first_run
    /\ UNCHANGED <<ret, date_string, bstr, dstr, programme_csv, pfsa_csv, dump_csv, psa_aid_csv,
                   inspections_in_programme, presentable_inspections, LIST_OF_PORTS, WEEKS,
                   lineno, current_week, pfsa_expiry_data_lst, idx, pfsa_exp, pfsa_apr, runs>>

NextProgramme == ParseProgrammeOpen \/ ReadRow \/ EndOfRows \/ Correlate \/ PrintProgramme

SpecProgramme == InitProgramme /\ [][NextProgramme]_vars

\* the text of a dated row as a calendar date: day, month, year, a two-digit year in 2000-2099
DateOfRow(row) ==
    LET p == Split(row[1], "/")
    IN  PyDate(IF Len(p[3]) = 2 THEN 2000 + DigitsValue(p[3], 0) ELSE DigitsValue(p[3], 0),
               DigitsValue(p[2], 0), DigitsValue(p[1], 0))

\* the rows after the "Week Comm" header that the first call has read so far
HeaderLine == IF \E n \in 1..Len(programme_csv) : programme_csv[n][1] = "Week Comm"
              THEN CHOOSE n \in 1..Len(programme_csv) :
                       /\ programme_csv[n][1] = "Week Comm"
                       /\ \A k \in 1..(n - 1) : programme_csv[k][1] # "Week Comm"
              ELSE Len(programme_csv)

RowsRead == SubSeq(programme_csv, HeaderLine + 1, lineno)

DatedOrBlankRead == SelectSeq(RowsRead, LAMBDA row : DATE_PATTERN(row[1]) \/ row[1] = "")

\* C9: while the rows after the header are read in order, every dated row
\* appends one Inspection of that row's date and appends the date to WEEKS,
\* every blank row appends one Inspection of the most recent dated row's
\* date, every other row appends nothing: the list holds one entry per
\* dated-or-blank row read, in file order (also for a blank row that comes
\* before every dated row).
C9_OneInspectionPerDatedOrBlankRow ==
    (runs = 1 /\ pc # "idle") =>
        LET kept == DatedOrBlankRead
            dated == SelectSeq(RowsRead, LAMBDA row : DATE_PATTERN(row[1]))
        IN  /\ Len(inspections_in_programme) = Len(kept)
            /\ WEEKS = [i \in 1..Len(dated) |-> DateOfRow(dated[i])]
            /\ \A i \in 1..Len(kept) :
                   /\ facility(inspections_in_programme[i]) = kept[i][3]
                   /\ DATE_PATTERN(kept[i][1])
                      => inspections_in_programme[i].week_begining = DateOfRow(kept[i])
                   /\ \A j \in 1..(i - 1) :
                          (/\ DATE_PATTERN(kept[j][1])
                           /\ \A k \in (j + 1)..i : kept[k][1] = "")
                          => inspections_in_programme[i].week_begining = DateOfRow(kept[j])

\* the PFSA rows of the file whose trimmed site name is the facility name, trailing whitespace stripped
MatchingRows(facility_) ==
    {r \in 1..Len(pfsa_csv.rows) : Strip(pfsa_csv.rows[r].SiteName) = RStrip(facility_)}

ExpiryOfRow(r) == parse_date_string(pfsa_csv.rows[r].PFSA_Expiry)

ApprovalOfRow(r) == parse_date_string(pfsa_csv.rows[r].PFSA_Approval)

\* the expiry dates of the first n PFSA rows, in file order
RECURSIVE ExpiryOfRows(_)
ExpiryOfRows(n) == IF n = 0 THEN <<>> ELSE Append(ExpiryOfRows(n - 1), ExpiryOfRow(n))

\* the trimmed site names of the first n PFSA rows, in file order
RECURSIVE SiteNameOfRows(_)
SiteNameOfRows(n) ==
    IF n = 0 THEN <<>> ELSE Append(SiteNameOfRows(n - 1), Strip(pfsa_csv.rows[n].SiteName))

FirstOf(rows) == CHOOSE r \in rows : \A q \in rows : r <= q

\* C1: once the rows are parsed, every inspection yields exactly one
\* PresentableInspection, in order, and the call returns; an inspection whose
\* facility equals no PFSA site name is emitted with pfsa_expiry
\* "NO PFSA EXPIRY DATA" and a no-data pfsa_approval, wherever the miss occurs.
C1_MissIsStillEmitted ==
    (runs = 1 /\ idx >= 1 /\ pc \in {"done", "aborted"}) =>
        /\ pc = "done"
        /\ Len(presentable_inspections) = Len(inspections_in_programme)
        /\ \A i \in 1..Len(presentable_inspections) :
               /\ presentable_inspections[i].facility = facility(inspections_in_programme[i])
               /\ presentable_inspections[i].week_begining = inspections_in_programme[i].week_begining
               /\ MatchingRows(presentable_inspections[i].facility) = {}
                  => /\ presentable_inspections[i].pfsa_expiry = PyStr("NO PFSA EXPIRY DATA")
                     /\ presentable_inspections[i].pfsa_approval.t # "date"

\* C2: a second call of parse_programme in the same process, over the same
\* files, leaves presentable_inspections and inspections_in_programme as the
\* first call left them.
C2_SecondRunChangesNothing ==
    (runs = 2 /\ pc = "done") =>
        /\ presentable_inspections = first_run.presentable_inspections
        /\ inspections_in_programme = first_run.inspections_in_programme

(***************************************************************************)
(* parse_programme over every pfsa.csv and a few programmes                *)
(***************************************************************************)
JoinProgrammes ==
    {<<HeaderRow>> \o body : body \in
        {<<<<"05/02/24", "Dover", "Dock A ", "X", "", "X", "to confirm  ">>>>,
         <<<<"05/02/24", "Dover", "Dock A ", "X", "", "X", "to confirm  ">>,
           <<"", "Tyne", "Dock B", "", "", "", "">>>>,
         <<<<"12/02/2024", "Tyne", "Dock C", "", "X", "", "">>,
           <<"", "Dover", "Dock A", "X", "", "X", "">>>>,
         <<<<"", "Tyne", "Dock B", "", "", "", "">>>>}}

InitJoin ==
    /\ pc = "idle"
    /\ programme_csv \in JoinProgrammes
    /\ pfsa_csv \in FilesOf(SeqsUpTo(PfsaRowSet, MaxPfsaRows))
    /\ dump_csv = NoFile /\ psa_aid_csv = <<>>
    /\ NoArguments /\ EmptyGlobals /\ NoLocals

SpecJoin == InitJoin /\ [][NextProgramme]_vars

\* C3 as stated: with several PFSA rows of the facility's name, the
\* PresentableInspection carries the expiry and approval dates of the
\* matching row that comes first in the file.
C3_FirstInFileOrderWins ==
    \A i \in 1..Len(presentable_inspections) :
        LET rows == MatchingRows(presentable_inspections[i].facility)
        IN  rows # {} =>
                /\ presentable_inspections[i].pfsa_expiry = ExpiryOfRow(FirstOf(rows))
                /\ presentable_inspections[i].pfsa_approval = ApprovalOfRow(FirstOf(rows))

\* C3 as amended: the PresentableInspection carries the dates of the matching
\* row with the earliest expiry date (a missing expiry is 1900-01-01), and
\* among matching rows of that expiry date, of the one that comes first in
\* the file.
C3_EarliestExpiryThenFileOrderWins ==
    LET expiry == ExpiryOfRows(Len(pfsa_csv.rows))
        name == SiteNameOfRows(Len(pfsa_csv.rows))
    IN  \A i \in 1..Len(presentable_inspections) :
            LET stripped == RStrip(presentable_inspections[i].facility)
                rows == {r \in 1..Len(pfsa_csv.rows) : name[r] = stripped}
                earliest == {r \in rows : \A q \in rows : ~ DateLess(expiry[q], expiry[r])}
            IN  rows # {} =>
                    /\ presentable_inspections[i].pfsa_expiry = expiry[FirstOf(earliest)]
                    /\ presentable_inspections[i].pfsa_approval = ApprovalOfRow(FirstOf(earliest))

\* an inspection was presented whose facility has several PFSA rows, the first of them not the earliest to expire
C3_LaterRowWithEarlierExpiryPresented ==
    \E i \in 1..Len(presentable_inspections) :
        LET rows == MatchingRows(presentable_inspections[i].facility)
        IN  /\ Cardinality(rows) >= 2
            /\ \E r \in rows : DateLess(ExpiryOfRow(r), ExpiryOfRow(FirstOf(rows)))
            /\ presentable_inspections[i].pfsa_expiry.t = "date"

(***************************************************************************)
(* parse_pfsa_csv("pfsa.csv"), parse_csv("dump.csv"), then                 *)
(* print_port_inspection_expiry()                                          *)
(***************************************************************************)
MaxDumpRows == 2

DumpRowSet ==
    {[SiteName |-> "Dover ", County |-> "Kent", DateOfLastInspection |-> "15-01-2024 00:00",
      FrequencyTarget |-> "6", SubCategoryDesc |-> "Cat 1", SiteCategoryDesc |-> "PFSI",
      SiteTypeDesc |-> "Port"],
     [SiteName |-> "Tyne", DateOfLastInspection |-> "31-08-2023 00:00",
      FrequencyTarget |-> "", SubCategoryDesc |-> "Cat 2", SiteCategoryDesc |-> "PFSI",
      SiteTypeDesc |-> "Port"],
     [SiteName |-> "Dock A", County |-> "Kent", DateOfLastInspection |-> "",
      FrequencyTarget |-> "12 ", SubCategoryDesc |-> "Cat 1", SiteCategoryDesc |-> "PFSI",
      SiteTypeDesc |-> "Port"],
     [SiteName |-> "Poole", County |-> "Dorset", DateOfLastInspection |-> "31-08-2023",
      FrequencyTarget |-> "6", SubCategoryDesc |-> "", SiteCategoryDesc |-> "",
      SiteTypeDesc |-> "PSA"],
     [SiteName |-> "Blyth", County |-> "", DateOfLastInspection |-> "2024",
      FrequencyTarget |-> "18", SubCategoryDesc |-> "", SiteCategoryDesc |-> "",
      SiteTypeDesc |-> "PSA"]}

PortsPfsaRowSet ==
    {[SiteName |-> "Dock A", PFSA_Approval |-> "15-03-2019 00:00", PFSA_Expiry |-> "15-03-2024 00:00"],
     [SiteName |-> "Dock C", PFSA_Approval |-> "01-01-2016 00:00", PFSA_Expiry |-> ""]}

\* what parse_programme leaves in inspections_in_programme for a one-row programme
ProgrammeOfOneRow ==
    <<Inspection("05/02/24", Zip(HeaderRow, <<"05/02/24", "Dover", "Dock A", "X", "", "X", "">>))>>

InitPorts ==
    /\ pc = "parse_pfsa_csv"
    /\ pfsa_csv \in FilesOf(SeqsUpTo(PortsPfsaRowSet, MaxPfsaRows))
    /\ dump_csv \in FilesOf(SeqsUpTo(DumpRowSet, MaxDumpRows))
    /\ inspections_in_programme \in {<<>>, ProgrammeOfOneRow}
    /\ programme_csv = <<>> /\ psa_aid_csv = <<>>
    /\ presentable_inspections = <<>> /\ LIST_OF_PORTS = <<>> /\ WEEKS = <<>>
    /\ NoArguments /\ NoLocals

ParsePfsaCsv ==
    /\ pc = "parse_pfsa_csv"
    /\ LET lst == parse_pfsa_csv(pfsa_csv)
       IN  IF Raised(lst)
           THEN pc' = "aborted" /\ ret' = lst /\ UNCHANGED pfsa_expiry_data_lst
           ELSE pc' = "parse_csv" /\ ret' = ret /\ pfsa_expiry_data_lst' = lst.v
    /\ UNCHANGED <<date_string, bstr, dstr, programme_csv, pfsa_csv, dump_csv, psa_aid_csv,
                   inspections_in_programme, presentable_inspections, LIST_OF_PORTS, WEEKS,
                   lineno, current_week, idx, pfsa_exp, pfsa_apr, runs, first_run, stdout>>

ParseCsv ==
    /\ pc = "parse_csv"
    /\ LET read == parse_csv(dump_csv, LIST_OF_PORTS)
       IN  /\ LIST_OF_PORTS' = read.lst
           /\ IF read.exc # None
              THEN pc' = "aborted" /\ ret' = read.exc /\ idx' = idx
              ELSE pc' = "print_port_inspection_expiry" /\ ret' = ret /\ idx' = 1
    /\ UNCHANGED <<date_string, bstr, dstr, programme_csv, pfsa_csv, dump_csv, psa_aid_csv,
                   inspections_in_programme, presentable_inspections, WEEKS, lineno,
                   current_week, pfsa_expiry_data_lst, pfsa_exp, pfsa_apr, runs, first_run,
                   stdout>>

\* the value raised by, or the line printed by, calculate_port_within_allowed_period(port)
calculate_port_within_allowed_period(port, inspections) ==
    LET ft == PyInt(port.frequency_target)
        calc == AddMonths(port.last_inspection_date, ft.v)
    IN  IF Raised(ft) THEN ft
        ELSE IF Raised(calc) THEN calc
        ELSE [t |-> "line", site_name |-> port.site_name, calc |-> calc,
              in_prog |-> in_current_programme(port, inspections)]

\* main.py:330-331, one turn of "for port in LIST_OF_PORTS"
CalculatePort ==
    /\ pc = "print_port_inspection_expiry"
    /\ idx <= Len(LIST_OF_PORTS)
    /\ idx' = idx + 1
    /\ LET line == calculate_port_within_allowed_period(LIST_OF_PORTS[idx], inspections_in_programme)
       IN  IF Raised(line)
           THEN pc' = "aborted" /\ ret' = line /\ stdout' = stdout
           ELSE pc' = pc /\ ret' = ret /\ stdout' = Append(stdout, line)
    /\ UNCHANGED <<date_string, bstr, dstr, programme_csv, pfsa_csv, dump_csv, psa_aid_csv,
                   inspections_in_programme, presentable_inspections, LIST_OF_PORTS, WEEKS,
                   lineno, current_week, pfsa_expiry_data_lst, pfsa_exp, pfsa_apr, runs,
                   first_run>>

EndOfPorts ==
    /\ pc = "print_port_inspection_expiry"
    /\ idx > Len(LIST_OF_PORTS)
    /\ pc' = "done"
    /\ UNCHANGED <<ret, date_string, bstr, dstr, programme_csv, pfsa_csv, dump_csv, psa_aid_csv,
                   inspections_in_programme, presentable_inspections, LIST_OF_PORTS, WEEKS,
                   lineno, current_week, pfsa_expiry_data_lst, idx, pfsa_exp, pfsa_apr, runs,
                   first_run, stdout>>

NextPorts == ParsePfsaCsv \/ ParseCsv \/ CalculatePort \/ EndOfPorts

SpecPorts == InitPorts /\ [][NextPorts]_vars

\* C4: print_port_inspection_expiry produces one line for every port of
\* LIST_OF_PORTS, in order, and ends normally; a port whose frequency_target
\* is the sentinel gets a line with an "unparseable" marker in place of the
\* due date, and the ports after it are still reported.
C4_SentinelPortGetsMarkedLine ==
    (idx >= 1 /\ pc \in {"done", "aborted"}) =>
        /\ pc = "done"
        /\ Len(stdout) = Len(LIST_OF_PORTS)
        /\ \A i \in 1..Len(stdout) :
               /\ stdout[i].site_name = LIST_OF_PORTS[i].site_name
               /\ LIST_OF_PORTS[i].frequency_target = "XXXXX" => stdout[i].calc = PyStr("unparseable")
               /\ LIST_OF_PORTS[i].frequency_target # "XXXXX" => stdout[i].calc.t = "date"

PortRows == SelectSeq(dump_csv.rows, LAMBDA row : row.SiteTypeDesc = "Port")

\* C10: when the UTF-8 read fails on a malformed character and the file is
\* read again as Latin-1, LIST_OF_PORTS holds exactly one entry per "Port"
\* row (parse_csv) and the returned list exactly one entry per row
\* (parse_pfsa_csv), however many rows were read before the failure.
C10_FallbackReadsEachRowOnce ==
    /\ (pc \in {"parse_csv", "print_port_inspection_expiry", "done"} /\ pfsa_csv.bad > 0)
       => /\ Len(pfsa_expiry_data_lst) = Len(pfsa_csv.rows)
          /\ \A r \in 1..Len(pfsa_csv.rows) :
                 Cardinality({i \in 1..Len(pfsa_expiry_data_lst) :
                                 pfsa_expiry_data_lst[i] = PortFromPFSARow(pfsa_csv.rows[r])})
                     = Cardinality({q \in 1..Len(pfsa_csv.rows) : pfsa_csv.rows[q] = pfsa_csv.rows[r]})
    /\ (pc \in {"print_port_inspection_expiry", "done"} /\ dump_csv.bad > 0)
       => LIST_OF_PORTS = [i \in 1..Len(PortRows) |-> PortFromCSVRow(PortRows[i])]

=============================================================================
